---- MODULE Spec2Model ----
(***************************************************************************)
(* Intent Recognition API (src/main.py): module start-up (init_model,      *)
(* create_intent_prompt), the GET / handler and the POST /recognize_intent *)
(* handler, run on the single event loop that serves the FastAPI app.      *)
(*                                                                         *)
(* The text returned by the model is a sequence of lexical tokens (white   *)
(* space between tokens is dropped, as json.loads skips it); json.loads is *)
(* the recursive-descent parser over those tokens and the construction of  *)
(* IntentResponse is the structural validation of the parsed value.        *)
(***************************************************************************)
EXTENDS Naturals, Sequences, FiniteSets, TLC

(***************************************************************************)
(* Bounds.                                                                 *)
(***************************************************************************)
\* Number of HTTP requests (GET / or POST /recognize_intent) a run sends.
NumReqs == 2

Reqs == 1..NumReqs

(***************************************************************************)
(* Python / JSON values.                                                   *)
(***************************************************************************)
\* JSON values as json.loads builds them: None, bool, number, str, list, dict.
JNull == [t |-> "null"]
JBool(b) == [t |-> "bool", b |-> b]
JNum(n) == [t |-> "num", n |-> n]
JStr(s) == [t |-> "str", s |-> s]
JArr(a) == [t |-> "arr", a |-> a]
JObj(o) == [t |-> "obj", o |-> o]

\* A dict is a mapping from its keys to values; the empty dict.
EmptyDict == <<>>

\* d[k] = v on a dict: a repeated key keeps the last value.
DictPut(d, k, v) == [x \in (DOMAIN d) \cup {k} |-> IF x = k THEN v ELSE d[x]]

(***************************************************************************)
(* Tokens of the model's text.                                             *)
(***************************************************************************)
\* Punctuation: one of { } [ ] : ,
P(c) == [k |-> "p", v |-> c]
\* A double-quoted string literal with content s.
S(s) == [k |-> "s", v |-> s]
\* A bare word: null, true, false, a number, NaN, or prose.
W(w) == [k |-> "w", v |-> w]

\* Bare words the scanner reads as numbers (NaN is accepted by json.loads).
NumberWords == {"1", "NaN"}

(***************************************************************************)
(* json.loads                                                              *)
(***************************************************************************)
RECURSIVE scan_once(_, _)
RECURSIVE JSONObject(_, _, _)
RECURSIVE JSONArray(_, _, _)

\* The scanner found no value at this position: JSONDecodeError.
DecodeFail == [ok |-> FALSE]
Decoded(v, e) == [ok |-> TRUE, val |-> v, end |-> e]

\* One JSON value starting at token i of s; end is the index after it.
scan_once(s, i) ==
    IF i > Len(s) THEN DecodeFail
    ELSE IF s[i].k = "s" THEN Decoded(JStr(s[i].v), i + 1)
    ELSE IF s[i] = P("{") THEN
        IF i + 1 > Len(s) THEN DecodeFail
        ELSE IF s[i + 1] = P("}") THEN Decoded(JObj(EmptyDict), i + 2)
        ELSE JSONObject(s, i + 1, EmptyDict)
    ELSE IF s[i] = P("[") THEN
        IF i + 1 > Len(s) THEN DecodeFail
        ELSE IF s[i + 1] = P("]") THEN Decoded(JArr(<<>>), i + 2)
        ELSE JSONArray(s, i + 1, <<>>)
    ELSE IF s[i] = W("null") THEN Decoded(JNull, i + 1)
    ELSE IF s[i] = W("true") THEN Decoded(JBool(TRUE), i + 1)
    ELSE IF s[i] = W("false") THEN Decoded(JBool(FALSE), i + 1)
    ELSE IF s[i].k = "w" /\ s[i].v \in NumberWords THEN Decoded(JNum(s[i].v), i + 1)
    ELSE DecodeFail

\* The members of an object from token i on (a property name is expected
\* there); pairs holds the members read so far.
JSONObject(s, i, pairs) ==
    IF i + 1 > Len(s) THEN DecodeFail
    ELSE IF s[i].k # "s" THEN DecodeFail
    ELSE IF s[i + 1] # P(":") THEN DecodeFail
    ELSE LET r == scan_once(s, i + 2) IN
        IF ~r.ok THEN DecodeFail
        ELSE IF r.end > Len(s) THEN DecodeFail
        ELSE IF s[r.end] = P("}")
            THEN Decoded(JObj(DictPut(pairs, s[i].v, r.val)), r.end + 1)
        ELSE IF s[r.end] = P(",")
            THEN JSONObject(s, r.end + 1, DictPut(pairs, s[i].v, r.val))
        ELSE DecodeFail

\* The elements of an array from token i on (a value is expected there).
JSONArray(s, i, values) ==
    LET r == scan_once(s, i) IN
        IF ~r.ok THEN DecodeFail
        ELSE IF r.end > Len(s) THEN DecodeFail
        ELSE IF s[r.end] = P("]") THEN Decoded(JArr(Append(values, r.val)), r.end + 1)
        ELSE IF s[r.end] = P(",") THEN JSONArray(s, r.end + 1, Append(values, r.val))
        ELSE DecodeFail

\* Faulty variant: raw_decode, which stops after the first value and accepts
\* whatever follows it.
json_loads_raw_decode(s) ==
    LET r == scan_once(s, 1) IN
        IF r.ok THEN [ok |-> TRUE, val |-> r.val] ELSE DecodeFail

\* json.loads(s): one value, then nothing else ("Extra data" otherwise).
json_loads(s) ==
    LET r == scan_once(s, 1) IN
        IF r.ok /\ r.end = Len(s) + 1 THEN [ok |-> TRUE, val |-> r.val]
        ELSE DecodeFail

(***************************************************************************)
(* Intent, IntentResponse (pydantic models)                                *)
(***************************************************************************)
\* A raised Python exception: its class and str(e).
Exc(type, msg) == [type |-> type, msg |-> msg]

\* x validates as an Intent: a dict with a str `name` and a `slots` dict
\* whose values are all str (unknown keys are ignored).
IsIntent(x) ==
    /\ x.t = "obj"
    /\ "name" \in DOMAIN x.o
    /\ x.o["name"].t = "str"
    /\ "slots" \in DOMAIN x.o
    /\ x.o["slots"].t = "obj"
    /\ \A k \in DOMAIN x.o["slots"].o : x.o["slots"].o[k].t = "str"

\* The Intent built from a dict that validates.
Intent(x) ==
    [name |-> x.o["name"].s,
     slots |-> [k \in DOMAIN x.o["slots"].o |-> x.o["slots"].o[k].s]]

\* Faulty variant: intents keyed by name, so that a repeated name is kept once.
RECURSIVE IntentList_MergedByName(_)
IntentList_MergedByName(a) ==
    IF Len(a) = 0 THEN <<>>
    ELSE LET init == IntentList_MergedByName(SubSeq(a, 1, Len(a) - 1))
             last == Intent(a[Len(a)])
         IN  IF \E i \in DOMAIN init : init[i].name = last.name
             THEN init ELSE Append(init, last)

\* The List[Intent] built from a list of dicts that validate: one Intent
\* per element, in the order of the list.
IntentList(a) == [i \in DOMAIN a |-> Intent(a[i])]

\* IntentResponse(**result): result must be a mapping (TypeError otherwise)
\* with a list `intents` of Intent (pydantic ValidationError otherwise).
IntentResponse(result) ==
    IF result.t # "obj"
    THEN [ok |-> FALSE,
          exc |-> Exc("TypeError", "argument after ** must be a mapping")]
    ELSE IF \/ "intents" \notin DOMAIN result.o
            \/ result.o["intents"].t # "arr"
            \/ \E i \in DOMAIN result.o["intents"].a : ~IsIntent(result.o["intents"].a[i])
    THEN [ok |-> FALSE,
          exc |-> Exc("ValidationError", "validation error for IntentResponse")]
    ELSE [ok |-> TRUE,
          val |-> [intents |-> IntentList(result.o["intents"].a)]]

(***************************************************************************)
(* What the remote model may answer.                                       *)
(***************************************************************************)
\* The two intents of the worked example in the system prompt, and an
\* intent without slots.
SendLocation ==
    [name |-> "send_location",
     slots |-> [location |-> "expo centre", platform |-> "wechat", recipient |-> "zhang san"]]
CallTaxi == [name |-> "call_taxi", slots |-> [destination |-> "expo centre"]]
Greet == [name |-> "greet", slots |-> EmptyDict]

\* The elements of a finite set of strings, in some fixed order.
RECURSIVE KeyList(_)
KeyList(K) ==
    IF K = {} THEN <<>>
    ELSE LET k == CHOOSE x \in K : TRUE IN <<k>> \o KeyList(K \ {k})

\* Token sequences joined by commas.
RECURSIVE CommaJoin(_)
CommaJoin(parts) ==
    IF Len(parts) = 0 THEN <<>>
    ELSE IF Len(parts) = 1 THEN parts[1]
    ELSE parts[1] \o <<P(",")>> \o CommaJoin(Tail(parts))

\* The text of a slots mapping: { "k" : "v" , ... }.
SlotsText(slots) ==
    LET keys == KeyList(DOMAIN slots) IN
        <<P("{")>>
        \o CommaJoin([i \in 1..Len(keys) |-> <<S(keys[i]), P(":"), S(slots[keys[i]])>>])
        \o <<P("}")>>

\* The text of one intent, as in the example output; nameFirst chooses the
\* order of its two members.
IntentText(it, nameFirst) ==
    LET n == <<S("name"), P(":"), S(it.name)>>
        sl == <<S("slots"), P(":")>> \o SlotsText(it.slots)
    IN  <<P("{")>>
        \o (IF nameFirst THEN n \o <<P(",")>> \o sl ELSE sl \o <<P(",")>> \o n)
        \o <<P("}")>>

\* The text of an answer holding these intents, as in the example output.
AnswerText(intents, nameFirst) ==
    <<P("{"), S("intents"), P(":"), P("[")>>
    \o CommaJoin([i \in 1..Len(intents) |-> IntentText(intents[i], nameFirst)])
    \o <<P("]"), P("}")>>

\* Answers that are valid JSON of the IntentResponse shape, each with the
\* intents it states: none, the worked example, the example reversed, a
\* repeated intent, and an intent without slots with `slots` written before
\* `name`.
MatchingAnswers ==
    {[text |-> AnswerText(c[1], c[2]), intents |-> c[1]] :
        c \in {<< <<>>, TRUE >>,
               << <<SendLocation, CallTaxi>>, TRUE >>,
               << <<CallTaxi, SendLocation>>, TRUE >>,
               << <<CallTaxi, CallTaxi>>, TRUE >>,
               << <<CallTaxi, Greet>>, FALSE >>}}

\* Valid JSON that is not of the IntentResponse shape: no `intents` key, an
\* intent without `name`, an intent without `slots`, `intents` that is not a
\* list, a top-level list, a slot value that is not a string, a top-level
\* string, number and null.
MismatchTexts ==
    {<<P("{"), P("}")>>,
     <<P("{"), S("intents"), P(":"), P("["), P("{"), S("slots"), P(":"), P("{"), P("}"), P("}"), P("]"), P("}")>>,
     <<P("{"), S("intents"), P(":"), P("["), P("{"), S("name"), P(":"), S("call_taxi"), P("}"), P("]"), P("}")>>,
     <<P("{"), S("intents"), P(":"), P("{"), P("}"), P("}")>>,
     <<P("["), P("]")>>,
     <<P("{"), S("intents"), P(":"), P("["), P("{"), S("name"), P(":"), S("call_taxi"), P(","),
       S("slots"), P(":"), P("{"), S("destination"), P(":"), W("null"), P("}"), P("}"), P("]"), P("}")>>,
     <<S("call_taxi")>>,
     <<W("1")>>,
     <<W("null")>>}

\* Text that is not JSON: prose, nothing at all, JSON wrapped in prose
\* (before, after), a truncated answer, a trailing comma.
NotJsonTexts ==
    {<<W("not"), W("json")>>,
     <<>>,
     <<W("Here"), W("you"), W("go")>> \o AnswerText(<<CallTaxi>>, TRUE),
     AnswerText(<<CallTaxi>>, TRUE) \o <<W("Done")>>,
     <<P("{"), S("intents"), P(":"), P("[")>>,
     <<P("{"), S("intents"), P(":"), P("["), P("]"), P(","), P("}")>>}

\* A literal json.loads reads as a float although it is not standard JSON.
LenientTexts == {<<W("NaN")>>}

ModelTexts ==
    {a.text : a \in MatchingAnswers} \cup MismatchTexts \cup NotJsonTexts \cup LenientTexts

\* str(e) of the errors the provider call may raise.
ProviderErrors == {"Connection error.", "Invalid API Key"}

\* Request bodies' text.
RequestTexts == {"take me to the expo centre and send it to zhang san", "hello"}

(***************************************************************************)
(* State.                                                                  *)
(***************************************************************************)
VARIABLES
    pc,                 \* position of the module's top-level code
    environ,            \* os.environ
    langchain_api_key,  \* init_model's locals
    groq_api_key,
    startupError,       \* the exception that ended the import, if any
    model,              \* the module globals built at start-up
    prompt,
    running,            \* the request whose handler occupies the event loop; 0 if none
    method,             \* per request: "", "GET" or "POST"
    text,               \* per request: request.text
    stage,              \* per request: its place in the lifecycle
    call,               \* per request: the remote call made for it
    invocations,        \* per request: how often model.invoke was called
    loads,              \* per request: how often json.loads was called
    validations,        \* per request: how often IntentResponse was constructed
    prompt_value,       \* recognize_intent's locals, per request
    response,
    json,
    result,
    intent_response,
    exc,                \* per request: the exception in flight in the handler
    resp                \* per request: the HTTP response sent

startupVars == <<pc, environ, langchain_api_key, groq_api_key, startupError, model, prompt>>
localVars == <<prompt_value, response, json, result, intent_response, exc>>
countVars == <<invocations, loads, validations>>
vars == <<pc, environ, langchain_api_key, groq_api_key, startupError, model, prompt,
          running, method, text, stage, call, invocations, loads, validations,
          prompt_value, response, json, result, intent_response, exc, resp>>

\* os.getenv of a variable that is not set returns None.
None == "<None>"
\* Python truthiness of an optional string: None and "" are false.
Falsy(x) == x \in {None, ""}

NoExc == Exc("", "")
NoModel == "<no model>"
NoPrompt == <<>>
NoValue == [has |-> FALSE]
Value(v) == [has |-> TRUE, v |-> v]
Respond(status, body) == [status |-> status, body |-> body]
NoResp == Respond(0, [sent |-> FALSE])
NoCall == [state |-> "none", content |-> <<>>, msg |-> ""]

\* The two messages of the prompt template: the fixed system instruction
\* with its worked example, and the human message "{text}".
ChatPromptTemplate ==
    <<[role |-> "system", template |-> "intent assistant; example output"],
      [role |-> "human", template |-> "{text}"]>>

\* prompt.invoke({"text": t}): the system message as it is, the human
\* message with {text} replaced by t.
prompt_invoke(p, t) ==
    [i \in DOMAIN p |->
        [role |-> p[i].role,
         content |-> IF p[i].template = "{text}" THEN t ELSE p[i].template]]

Init ==
    /\ pc = "import"
    /\ environ \in {[LANGCHAIN_TRACING_V2 |-> None, LANGCHAIN_API_KEY |-> lk, GROQ_API_KEY |-> gk] :
                        lk \in {None, "", "lsv2-key"}, gk \in {None, "", "gsk-key"}}
    /\ langchain_api_key = None
    /\ groq_api_key = None
    /\ startupError = NoExc
    /\ model = NoModel
    /\ prompt = NoPrompt
    /\ running = 0
    /\ method = [r \in Reqs |-> ""]
    /\ text = [r \in Reqs |-> ""]
    /\ stage = [r \in Reqs |-> "absent"]
    /\ call = [r \in Reqs |-> NoCall]
    /\ invocations = [r \in Reqs |-> 0]
    /\ loads = [r \in Reqs |-> 0]
    /\ validations = [r \in Reqs |-> 0]
    /\ prompt_value = [r \in Reqs |-> <<>>]
    /\ response = [r \in Reqs |-> NoValue]
    /\ json = [r \in Reqs |-> FALSE]
    /\ result = [r \in Reqs |-> NoValue]
    /\ intent_response = [r \in Reqs |-> NoValue]
    /\ exc = [r \in Reqs |-> NoExc]
    /\ resp = [r \in Reqs |-> NoResp]

(***************************************************************************)
(* Start-up: the module's top-level code, lines 98-100.                    *)
(***************************************************************************)
\* init_model, lines 78-79: read the two keys.
Getenv ==
    /\ pc = "import"
    /\ langchain_api_key' = environ.LANGCHAIN_API_KEY
    /\ groq_api_key' = environ.GROQ_API_KEY
    /\ pc' = "check"
    /\ UNCHANGED <<environ, startupError, model, prompt, running, method, text, stage,
                   call, countVars, localVars, resp>>

\* Faulty variant: only the first key is checked.
CheckKeys_FirstOnly(lk, gk) ==
    IF Falsy(lk) THEN Exc("ValueError", "LANGCHAIN_API_KEY environment variable is not set")
    ELSE NoExc

\* The ValueError init_model raises for these keys, NoExc if it raises none.
CheckKeys(lk, gk) ==
    IF Falsy(lk) THEN Exc("ValueError", "LANGCHAIN_API_KEY environment variable is not set")
    ELSE IF Falsy(gk) THEN Exc("ValueError", "GROQ_API_KEY environment variable is not set")
    ELSE NoExc

\* init_model, lines 85-88: a missing key ends the import with ValueError.
CheckApiKeys ==
    /\ pc = "check"
    /\ startupError' = CheckKeys(langchain_api_key, groq_api_key)
    /\ pc' = IF startupError' = NoExc THEN "setenv" ELSE "failed"
    /\ UNCHANGED <<environ, langchain_api_key, groq_api_key, model, prompt, running,
                   method, text, stage, call, countVars, localVars, resp>>

\* init_model, lines 91-93: write the environment.
Setenv ==
    /\ pc = "setenv"
    /\ environ' = [environ EXCEPT !.LANGCHAIN_TRACING_V2 = "true",
                                  !.LANGCHAIN_API_KEY = langchain_api_key,
                                  !.GROQ_API_KEY = groq_api_key]
    /\ pc' = "construct"
    /\ UNCHANGED <<langchain_api_key, groq_api_key, startupError, model, prompt, running,
                   method, text, stage, call, countVars, localVars, resp>>

\* Lines 95 and 99: model = ChatGroq(...).
ConstructModel ==
    /\ pc = "construct"
    /\ model' = "ChatGroq(llama-3.2-90b-vision-preview)"
    /\ pc' = "prompt"
    /\ UNCHANGED <<environ, langchain_api_key, groq_api_key, startupError, prompt, running,
                   method, text, stage, call, countVars, localVars, resp>>

\* Line 100: prompt = create_intent_prompt(); the import then completes and
\* the application serves its routes.
create_intent_prompt ==
    /\ pc = "prompt"
    /\ prompt' = ChatPromptTemplate
    /\ pc' = "ready"
    /\ UNCHANGED <<environ, langchain_api_key, groq_api_key, startupError, model, running,
                   method, text, stage, call, countVars, localVars, resp>>

(***************************************************************************)
(* Requests.  Both handlers are coroutines without an await: once the      *)
(* event loop starts one it runs to its end before any other handler runs, *)
(* and the loop is held while model.invoke waits for the remote model.     *)
(***************************************************************************)
\* A client sends request r (requests are numbered in the order they are
\* sent); the body of a POST is read when its handler is called.
Arrive(r) ==
    /\ stage[r] = "absent"
    /\ IF r = 1 THEN TRUE ELSE stage[r - 1] # "absent"
    /\ \E m \in {"GET", "POST"} : method' = [method EXCEPT ![r] = m]
    /\ stage' = [stage EXCEPT ![r] = "queued"]
    /\ UNCHANGED <<startupVars, running, text, call, countVars, localVars, resp>>

\* The fixed payload of GET /, lines 105-109.
RootPayload ==
    [status |-> "ok", message |-> "Intent Recognition API is running", version |-> "1.0.0"]

\* GET /, lines 103-109.
root(r) ==
    /\ pc = "ready"
    /\ running = 0
    /\ stage[r] = "queued"
    /\ method[r] = "GET"
    /\ resp' = [resp EXCEPT ![r] = Respond(200, RootPayload)]
    /\ stage' = [stage EXCEPT ![r] = "responded"]
    /\ UNCHANGED <<startupVars, running, method, text, call, countVars, localVars>>

\* The handler's frame is gone once it returned or raised.
ClearLocals(r) ==
    /\ prompt_value' = [prompt_value EXCEPT ![r] = <<>>]
    /\ response' = [response EXCEPT ![r] = NoValue]
    /\ json' = [json EXCEPT ![r] = FALSE]
    /\ result' = [result EXCEPT ![r] = NoValue]
    /\ intent_response' = [intent_response EXCEPT ![r] = NoValue]
    /\ exc' = [exc EXCEPT ![r] = NoExc]

\* POST /recognize_intent, line 113: the handler is entered with the
\* IntentRequest parsed from the body.
Receive(r) ==
    /\ pc = "ready"
    /\ running = 0
    /\ stage[r] = "queued"
    /\ method[r] = "POST"
    /\ running' = r
    /\ \E t \in RequestTexts : text' = [text EXCEPT ![r] = t]
    /\ stage' = [stage EXCEPT ![r] = "received"]
    /\ UNCHANGED <<startupVars, method, call, countVars, localVars, resp>>

\* Faulty variant: the text is bound into the module's prompt template itself.
BuildPrompt_BindsGlobal(r) ==
    /\ running = r
    /\ stage[r] = "received"
    /\ prompt' = [i \in DOMAIN prompt |->
                     [role |-> prompt[i].role,
                      template |-> IF prompt[i].template = "{text}" THEN text[r]
                                   ELSE prompt[i].template]]
    /\ prompt_value' = [prompt_value EXCEPT ![r] = prompt_invoke(prompt', text[r])]
    /\ stage' = [stage EXCEPT ![r] = "prompted"]
    /\ UNCHANGED <<pc, environ, langchain_api_key, groq_api_key, startupError, model,
                   running, method, text, call, countVars,
                   response, json, result, intent_response, exc, resp>>

\* Line 116: prompt_value = prompt.invoke({"text": request.text}).
BuildPrompt(r) ==
    /\ running = r
    /\ stage[r] = "received"
    /\ prompt_value' = [prompt_value EXCEPT ![r] = prompt_invoke(prompt, text[r])]
    /\ stage' = [stage EXCEPT ![r] = "prompted"]
    /\ UNCHANGED <<startupVars, running, method, text, call, countVars,
                   response, json, result, intent_response, exc, resp>>

\* Faulty variant: the model is invoked twice and the second answer is used.
InvokeModel_Twice(r) ==
    /\ running = r
    /\ stage[r] = "prompted"
    /\ exc[r] = NoExc
    /\ call' = [call EXCEPT ![r] = [state |-> "pending", content |-> <<>>, msg |-> ""]]
    /\ invocations' = [invocations EXCEPT ![r] = @ + 2]
    /\ stage' = [stage EXCEPT ![r] = "invoked"]
    /\ UNCHANGED <<startupVars, running, method, text, loads, validations, localVars, resp>>

\* Line 118: model.invoke(prompt_value) is called; the remote call is in flight.
InvokeModel(r) ==
    /\ running = r
    /\ stage[r] = "prompted"
    /\ exc[r] = NoExc
    /\ call' = [call EXCEPT ![r] = [state |-> "pending", content |-> <<>>, msg |-> ""]]
    /\ invocations' = [invocations EXCEPT ![r] = @ + 1]
    /\ stage' = [stage EXCEPT ![r] = "invoked"]
    /\ UNCHANGED <<startupVars, running, method, text, loads, validations, localVars, resp>>

\* Line 118: the remote model answers with some text.
ModelReturns(r) ==
    /\ running = r
    /\ stage[r] = "invoked"
    /\ call[r].state = "pending"
    /\ \E c \in ModelTexts :
        /\ call' = [call EXCEPT ![r] = [state |-> "returned", content |-> c, msg |-> ""]]
        /\ response' = [response EXCEPT ![r] = Value(c)]
    /\ UNCHANGED <<startupVars, running, method, text, stage, countVars,
                   prompt_value, json, result, intent_response, exc, resp>>

\* Line 118: the remote call fails; model.invoke raises.
ModelFails(r) ==
    /\ running = r
    /\ stage[r] = "invoked"
    /\ call[r].state = "pending"
    /\ \E m \in ProviderErrors :
        /\ call' = [call EXCEPT ![r] = [state |-> "failed", content |-> <<>>, msg |-> m]]
        /\ exc' = [exc EXCEPT ![r] = Exc("APIError", m)]
    /\ UNCHANGED <<startupVars, running, method, text, stage, countVars,
                   prompt_value, response, json, result, intent_response, resp>>

\* Line 121: import json binds the handler's local name json.
ImportJson(r) ==
    /\ running = r
    /\ stage[r] = "invoked"
    /\ response[r].has
    /\ ~json[r]
    /\ json' = [json EXCEPT ![r] = TRUE]
    /\ UNCHANGED <<startupVars, running, method, text, stage, call, countVars,
                   prompt_value, response, result, intent_response, exc, resp>>

\* json.loads on each text the model may answer with.
Decoding == [c \in ModelTexts |-> json_loads(c)]

\* Line 122: result = json.loads(response.content), or JSONDecodeError.
JsonLoads(r) ==
    /\ running = r
    /\ stage[r] = "invoked"
    /\ json[r]
    /\ exc[r] = NoExc
    /\ LET d == Decoding[response[r].v] IN
        /\ result' = [result EXCEPT ![r] = IF d.ok THEN Value(d.val) ELSE NoValue]
        /\ exc' = [exc EXCEPT ![r] =
                      IF d.ok THEN NoExc ELSE Exc("JSONDecodeError", "Expecting value")]
    /\ loads' = [loads EXCEPT ![r] = @ + 1]
    /\ stage' = [stage EXCEPT ![r] = "parsed"]
    /\ UNCHANGED <<startupVars, running, method, text, call, invocations, validations,
                   prompt_value, response, json, intent_response, resp>>

\* Faulty variant: the parsed value is returned as it is, without validation.
Validate_Skipped(r) ==
    /\ running = r
    /\ stage[r] = "parsed"
    /\ exc[r] = NoExc
    /\ resp' = [resp EXCEPT ![r] = Respond(200, result[r].v)]
    /\ stage' = [stage EXCEPT ![r] = "responded"]
    /\ ClearLocals(r)
    /\ UNCHANGED <<startupVars, running, method, text, call, countVars>>

\* Line 125: intent_response = IntentResponse(**result), or the error it raises.
Validate(r) ==
    /\ running = r
    /\ stage[r] = "parsed"
    /\ exc[r] = NoExc
    /\ LET v == IntentResponse(result[r].v) IN
        /\ intent_response' = [intent_response EXCEPT ![r] =
                                  IF v.ok THEN Value(v.val) ELSE NoValue]
        /\ exc' = [exc EXCEPT ![r] = IF v.ok THEN NoExc ELSE v.exc]
    /\ validations' = [validations EXCEPT ![r] = @ + 1]
    /\ stage' = [stage EXCEPT ![r] = "validated"]
    /\ UNCHANGED <<startupVars, running, method, text, call, invocations, loads,
                   prompt_value, response, json, result, resp>>

\* Line 126 with response_model=IntentResponse: 200 and the validated intents.
ReturnIntents(r) ==
    /\ running = r
    /\ stage[r] = "validated"
    /\ exc[r] = NoExc
    /\ resp' = [resp EXCEPT ![r] = Respond(200, intent_response[r].v)]
    /\ stage' = [stage EXCEPT ![r] = "responded"]
    /\ ClearLocals(r)
    /\ UNCHANGED <<startupVars, running, method, text, call, countVars>>

\* Faulty variant: the first clause catches ValueError, the base class of both
\* JSONDecodeError and pydantic's ValidationError.
ExceptClauses_ValueError(jsonBound, e) ==
    IF ~jsonBound THEN Respond(500, [text |-> "Internal Server Error"])
    ELSE IF e.type \in {"JSONDecodeError", "ValidationError"}
        THEN Respond(422, [detail |-> "Invalid JSON response from model"])
    ELSE Respond(500, [detail |-> e.msg])

\* Lines 127-130: the except clauses are tried in order.  The first one
\* evaluates json.JSONDecodeError: with the local json not bound yet that
\* raises UnboundLocalError, which no clause catches, and the framework
\* answers 500 "Internal Server Error".  Otherwise JSONDecodeError becomes
\* HTTPException 422 and anything else HTTPException 500 with str(e).
ExceptClauses(jsonBound, e) ==
    IF ~jsonBound THEN Respond(500, [text |-> "Internal Server Error"])
    ELSE IF e.type = "JSONDecodeError"
        THEN Respond(422, [detail |-> "Invalid JSON response from model"])
    ELSE Respond(500, [detail |-> e.msg])

\* Faulty variant: a failed remote call is tried once more before giving up.
Except_RetryOnce(r) ==
    /\ running = r
    /\ stage[r] \in {"invoked", "parsed", "validated"}
    /\ exc[r] # NoExc
    /\ IF call[r].state = "failed" /\ invocations[r] < 2
       THEN /\ stage' = [stage EXCEPT ![r] = "prompted"]
            /\ exc' = [exc EXCEPT ![r] = NoExc]
            /\ call' = [call EXCEPT ![r] = NoCall]
            /\ UNCHANGED <<startupVars, running, method, text, countVars,
                           prompt_value, response, json, result, intent_response, resp>>
       ELSE /\ resp' = [resp EXCEPT ![r] = ExceptClauses(json[r], exc[r])]
            /\ stage' = [stage EXCEPT ![r] = "error"]
            /\ ClearLocals(r)
            /\ UNCHANGED <<startupVars, running, method, text, call, countVars>>

\* An exception raised inside the try block leaves the handler.
Except(r) ==
    /\ running = r
    /\ stage[r] \in {"invoked", "parsed", "validated"}
    /\ exc[r] # NoExc
    /\ resp' = [resp EXCEPT ![r] = ExceptClauses(json[r], exc[r])]
    /\ stage' = [stage EXCEPT ![r] = "error"]
    /\ ClearLocals(r)
    /\ UNCHANGED <<startupVars, running, method, text, call, countVars>>

\* The response is written out: the exchange is over, the request and the
\* remote call made for it are dropped, and the event loop is free again.
Complete(r) ==
    /\ running = r
    /\ stage[r] \in {"responded", "error"}
    /\ running' = 0
    /\ text' = [text EXCEPT ![r] = ""]
    /\ call' = [call EXCEPT ![r] = [state |-> "closed", content |-> <<>>, msg |-> ""]]
    /\ UNCHANGED <<startupVars, method, stage, countVars, localVars, resp>>

(***************************************************************************)
(* Specifications.                                                         *)
(***************************************************************************)
Startup == Getenv \/ CheckApiKeys \/ Setenv \/ ConstructModel \/ create_intent_prompt

recognize_intent(r) ==
    \/ Receive(r) \/ BuildPrompt(r) \/ InvokeModel(r) \/ ImportJson(r)
    \/ JsonLoads(r) \/ Validate(r) \/ ReturnIntents(r) \/ Except(r) \/ Complete(r)

Next ==
    \/ Startup
    \/ \E r \in Reqs :
        Arrive(r) \/ root(r) \/ recognize_intent(r) \/ ModelReturns(r) \/ ModelFails(r)

Spec == Init /\ [][Next]_vars

\* A step of the process: its one thread runs the import, then the event
\* loop and the handlers it starts.
ProcessStep == Startup \/ \E r \in Reqs : root(r) \/ recognize_intent(r)

\* The thread keeps running while it has something to run; the clients and
\* the remote model owe nothing (a call may never return).
FairSpec == Spec /\ WF_vars(ProcessStep)

(***************************************************************************)
(* Properties.                                                             *)
(***************************************************************************)
\* The handler of request r has ended with the model's answer c.
AnsweredText(r, c) ==
    /\ stage[r] \in {"responded", "error"}
    /\ call[r].state = "returned"
    /\ call[r].content = c

\* C1: when the model returns valid JSON of the IntentResponse shape, the
\* response is 200 and its body holds exactly the intents of that text: the
\* same number, in the same order, each with its name and its slots.
C1_MatchingAnswerIsReturned ==
    \A r \in Reqs : \A a \in MatchingAnswers :
        AnsweredText(r, a.text) => resp[r] = Respond(200, [intents |-> a.intents])

\* The model stated the same intent twice and both were returned.
C1_Witness ==
    \E r \in Reqs :
        /\ AnsweredText(r, AnswerText(<<CallTaxi, CallTaxi>>, TRUE))
        /\ resp[r].status = 200
        /\ Len(resp[r].body.intents) = 2

C3_ProviderFailureIs500WithMessage ==
    \A r \in Reqs :
        (stage[r] \in {"responded", "error"} /\ call[r].state = "failed") =>
            resp[r] = Respond(500, [detail |-> call[r].msg])

\* C4: when the model returns valid JSON that is not of the IntentResponse
\* shape, the response is 500 with a detail message (never 200, never 422).
C4_MismatchIs500 ==
    \A r \in Reqs : \A c \in MismatchTexts :
        AnsweredText(r, c) =>
            /\ resp[r].status = 500
            /\ DOMAIN resp[r].body = {"detail"}
            /\ resp[r].body.detail # ""

\* A top-level list got 500, and so did an answer that failed validation.
C4_Witness ==
    \E r \in Reqs :
        /\ AnsweredText(r, <<P("["), P("]")>>)
        /\ resp[r].status = 500
        /\ \E q \in Reqs : resp[q] = Respond(500, [detail |-> "validation error for IntentResponse"])

\* C5: once the service is ready, every GET / is answered with 200 and the
\* fixed payload, whatever the remote model does.
C5_RootIsAlwaysAnswered ==
    \A r \in Reqs :
        (pc = "ready" /\ stage[r] = "queued" /\ method[r] = "GET")
            ~> (resp[r] = Respond(200, RootPayload))

\* Either credential is absent or empty.
MissingCredential == Falsy(environ.LANGCHAIN_API_KEY) \/ Falsy(environ.GROQ_API_KEY)

\* C6: with a credential absent or empty, start-up never gets past the key
\* check (it ends with ValueError): no environment variable is written, no
\* model client or prompt is built, and no request is ever served.
C6_MissingCredentialIsFatal ==
    MissingCredential =>
        /\ pc \in {"import", "check", "failed"}
        /\ pc = "failed" => startupError.type = "ValueError"
        /\ environ.LANGCHAIN_TRACING_V2 = None
        /\ model = NoModel
        /\ prompt = NoPrompt
        /\ running = 0
        /\ \A r \in Reqs : stage[r] \in {"absent", "queued"} /\ resp[r] = NoResp

\* Start-up failed on the second key alone while a request was waiting.
C6_Witness ==
    /\ pc = "failed"
    /\ ~Falsy(environ.LANGCHAIN_API_KEY)
    /\ Falsy(environ.GROQ_API_KEY)
    /\ \E r \in Reqs : stage[r] = "queued"

\* The lifecycle of a POST request, and the error exits from it.
Lifecycle ==
    {<<"absent", "queued">>, <<"queued", "received">>, <<"received", "prompted">>,
     <<"prompted", "invoked">>, <<"invoked", "parsed">>, <<"parsed", "validated">>,
     <<"validated", "responded">>}
ErrorExits == {<<"invoked", "error">>, <<"parsed", "error">>, <<"validated", "error">>}

\* C7: a POST request moves received, prompted, invoked, parsed, validated,
\* responded in that order, one stage at a time; it leaves the path only to
\* the error state, from invoked on a provider failure, from parsed on a
\* decode failure, from validated on a schema failure; nothing runs after a
\* failure, and 200 is sent only after a successful validation.
C7_Lifecycle ==
    [][\A r \in Reqs :
        (method'[r] = "POST" /\ stage'[r] # stage[r]) =>
            /\ <<stage[r], stage'[r]>> \in Lifecycle \cup ErrorExits
            /\ <<stage[r], stage'[r]>> = <<"invoked", "error">> =>
                   call[r].state = "failed" /\ loads[r] = 0 /\ validations[r] = 0
            /\ <<stage[r], stage'[r]>> = <<"parsed", "error">> =>
                   exc[r].type = "JSONDecodeError" /\ validations[r] = 0
            /\ <<stage[r], stage'[r]>> = <<"validated", "error">> =>
                   exc[r].type \in {"TypeError", "ValidationError"}
            /\ stage'[r] = "error" => resp'[r].status # 200
            /\ stage'[r] = "responded" =>
                   intent_response[r].has /\ resp'[r] = Respond(200, intent_response[r].v)
      ]_vars

\* One request left at `invoked` on a provider failure, another went all the way.
C7_Witness ==
    /\ \E r \in Reqs : stage[r] = "error" /\ call[r].state = "failed"
    /\ \E r \in Reqs : method[r] = "POST" /\ stage[r] = "responded"

\* C8: the model is invoked at most once per request and its text is parsed
\* and validated at most once; after a failure nothing is tried again and
\* the caller gets an error response.
C8_NoRetry ==
    \A r \in Reqs :
        /\ invocations[r] <= 1
        /\ loads[r] <= 1
        /\ validations[r] <= 1
        /\ call[r].state = "failed" => loads[r] = 0
        /\ stage[r] = "error" => invocations[r] = 1 /\ resp[r].status \in {422, 500}

\* A provider failure and a decode failure were each surfaced after one call.
C8_Witness ==
    /\ \E r \in Reqs : stage[r] = "error" /\ resp[r].status = 500 /\ loads[r] = 0
    /\ \E r \in Reqs : stage[r] = "error" /\ resp[r].status = 422 /\ invocations[r] = 1

\* The response the handler gives for the outcome c of its own remote call.
ResponseFor(c) ==
    IF c.state = "failed" THEN ExceptClauses(FALSE, Exc("APIError", c.msg))
    ELSE LET d == json_loads(c.content) IN
        IF ~d.ok THEN ExceptClauses(TRUE, Exc("JSONDecodeError", "Expecting value"))
        ELSE LET v == IntentResponse(d.val) IN
            IF v.ok THEN Respond(200, v.val) ELSE ExceptClauses(TRUE, v.exc)

\* C9: the response to a request depends only on the outcome of the remote
\* call made for that request, whatever other requests did before or are
\* waiting meanwhile; and no request changes the model client, the prompt
\* template or the environment built at start-up.
C9_Independent ==
    [][/\ \A r \in Reqs :
            (stage'[r] \in {"responded", "error"} /\ call'[r].state \in {"returned", "failed"})
                => resp'[r] = ResponseFor(call'[r])
       /\ pc = "ready" => (model' = model /\ prompt' = prompt /\ environ' = environ)
      ]_vars

\* Two POST requests, answered differently, one after the other.
C9_Witness ==
    \E r, q \in Reqs :
        /\ r # q
        /\ resp[r].status = 200
        /\ stage[q] = "error"
        /\ resp[q].status = 422
        /\ call[q].state = "returned"

\* C10: a request whose remote call returned or failed gets a response;
\* a request whose handler runs gets a response or waits for the remote
\* call (so only a call that never returns leaves it unanswered); a
\* response, once sent, is the only one; it is 200, 422 or 500.
C10_EveryRequestIsAnswered ==
    /\ \A r \in Reqs : (call[r].state \in {"returned", "failed"}) ~> (resp[r] # NoResp)
    /\ \A r \in Reqs : (running = r) ~> (resp[r] # NoResp \/ call[r].state = "pending")
    /\ [][\A r \in Reqs : resp[r] # NoResp => resp'[r] = resp[r]]_vars
    /\ [](\A r \in Reqs : resp[r] # NoResp => resp[r].status \in {200, 422, 500})

\* Every request of the run was answered, one of them after a remote failure.
C10_Witness ==
    /\ \A r \in Reqs : resp[r] # NoResp
    /\ \E r \in Reqs : method[r] = "POST" /\ resp[r].status = 500

====
